---- MODULE Spec2Model ----
(***************************************************************************)
(* Model of DependencyGraphManager (src/src/core/DependencyGraphManager.ts),*)
(* the project dependency-graph engine of RSWE-V1, and of the scheduling of *)
(* the analysis passes of ProjectContextManager.                            *)
(*                                                                          *)
(* Strings are TLC strings (Len, \o and SubSeq work on them), so paths and  *)
(* import specifiers are the strings the code handles and the path          *)
(* functions are computed character by character (POSIX flavour of Node's   *)
(* path module).  A file's content is the sequence of its lines; a line is  *)
(* a record naming the shape of the text (which regular expression of the   *)
(* extractor it matches first) and the captured groups.                     *)
(***************************************************************************)
EXTENDS Integers, Sequences, FiniteSets, TLC

VARIABLES
    disk,             \* the file system: path -> File(lines) or Absent
    projectAnalysis,  \* _projectAnalysis: the files of the analysis, or NoAnalysis
    dependencyGraph,  \* _dependencyGraph: [order: insertion order of the keys,
                      \*                    nodes: key -> DependencyNode]
    isInitialized,    \* _isInitialized
    edits,            \* number of file-system changes so far (model bound)
    last,             \* the last call and what it returned or threw
    \* ProjectContextManager (src/unnamed/part_005)
    analysisInProgress,  \* _analysisInProgress
    currentAnalysis,     \* _currentAnalysis: NoContext, or the pass that produced it
    timers,              \* setTimeout callbacks of _incrementalUpdate not yet run
    running,             \* the _performFullAnalysis calls in flight, oldest first
    events,              \* number of watcher events and calls so far (model bound)
    started,             \* number of _performFullAnalysis calls made so far
    task                 \* the initialize or updateGraph call waiting for a file read

graphVars == <<disk, projectAnalysis, dependencyGraph, isInitialized, edits, last>>

contextVars == <<analysisInProgress, currentAnalysis, timers, running, events, started>>

vars == <<graphVars, contextVars, task>>

Null == "null"

\* a path with no readable file behind it
Absent == [exists |-> FALSE, lines |-> <<>>]
\* a readable file and its lines
File(lines) == [exists |-> TRUE, lines |-> lines]

\* no initialize or updateGraph call is under way
Idle == [op |-> "idle", files |-> <<>>, i |-> 0]

\* _projectAnalysis before the first initialize
NoAnalysis == [present |-> FALSE, files |-> <<>>]

-----------------------------------------------------------------------------
(* Bounds of the model *)

\* file-system changes (writes, deletions) explored after construction
MaxEdits == 1
\* files per updateGraph batch
MaxBatch == 2
\* watcher events and initializeProjectContext calls explored
MaxEvents == 4

-----------------------------------------------------------------------------
(* JavaScript string and array primitives *)

Max(a, b) == IF a >= b THEN a ELSE b
Min(a, b) == IF a <= b THEN a ELSE b

Range(s) == {s[i] : i \in DOMAIN s}

CharAt(s, i) == SubSeq(s, i, i)

\* String.prototype.startsWith
StartsWith(s, p) == Len(s) >= Len(p) /\ SubSeq(s, 1, Len(p)) = p

\* String.prototype.includes
StrIncludes(s, p) ==
    \E i \in 1..(Len(s) - Len(p) + 1) : SubSeq(s, i, i + Len(p) - 1) = p

\* String.prototype.substring(n): drop the first n characters
Substring(s, n) == SubSeq(s, n + 1, Len(s))

\* position (1-based) of the last occurrence of the character c in s, 0 if none
LastIndexOfChar(s, c) ==
    LET hits == {i \in 1..Len(s) : CharAt(s, i) = c}
    IN  IF hits = {} THEN 0 ELSE CHOOSE i \in hits : \A j \in hits : j <= i

\* Array.prototype.indexOf, 0-based, -1 when absent
IndexOf(arr, x) ==
    LET hits == {i \in 1..Len(arr) : arr[i] = x}
    IN  IF hits = {} THEN -1 ELSE (CHOOSE i \in hits : \A j \in hits : i <= j) - 1

\* Array.prototype.slice(start): a negative start counts from the end
Slice(arr, start) ==
    LET from == IF start < 0 THEN Max(Len(arr) + start, 0) ELSE Min(start, Len(arr))
    IN  SubSeq(arr, from + 1, Len(arr))

\* [...new Set(arr)]: first occurrences, in order
RECURSIVE Dedup(_)
Dedup(arr) ==
    IF arr = <<>> THEN <<>>
    ELSE LET init == Dedup(SubSeq(arr, 1, Len(arr) - 1))
             x == arr[Len(arr)]
         IN  IF x \in Range(init) THEN init ELSE Append(init, x)

Upper == "ABCDEFGHIJKLMNOPQRSTUVWXYZ"
Lower == "abcdefghijklmnopqrstuvwxyz"

LowerChar(c) ==
    IF \E i \in 1..Len(Upper) : CharAt(Upper, i) = c
    THEN CharAt(Lower, CHOOSE i \in 1..Len(Upper) : CharAt(Upper, i) = c)
    ELSE c

\* String.prototype.toLowerCase
RECURSIVE ToLowerCase(_)
ToLowerCase(s) ==
    IF Len(s) = 0 THEN ""
    ELSE LowerChar(CharAt(s, 1)) \o ToLowerCase(Substring(s, 1))

-----------------------------------------------------------------------------
(* Node's path module, POSIX *)

\* the segments of p between slashes (empty segments kept)
RECURSIVE SplitPath(_)
SplitPath(p) ==
    LET hits == {i \in 1..Len(p) : CharAt(p, i) = "/"}
    IN  IF hits = {} THEN <<p>>
        ELSE LET i == CHOOSE k \in hits : \A j \in hits : k <= j
             IN  <<SubSeq(p, 1, i - 1)>> \o SplitPath(Substring(p, i))

RECURSIVE JoinSegments(_)
JoinSegments(segs) ==
    IF segs = <<>> THEN ""
    ELSE IF Len(segs) = 1 THEN segs[1]
    ELSE segs[1] \o "/" \o JoinSegments(Tail(segs))

\* normalizeString of path.posix: resolve "." and "..", drop empty segments;
\* a relative path keeps the ".." it cannot resolve
RECURSIVE NormalizeSegments(_, _, _)
NormalizeSegments(segs, acc, isAbsolute) ==
    IF segs = <<>> THEN acc
    ELSE LET s == Head(segs)
             rest == Tail(segs)
         IN  IF s = "" \/ s = "." THEN NormalizeSegments(rest, acc, isAbsolute)
             ELSE IF s = ".."
                  THEN IF acc # <<>> /\ acc[Len(acc)] # ".."
                       THEN NormalizeSegments(rest, SubSeq(acc, 1, Len(acc) - 1), isAbsolute)
                       ELSE IF isAbsolute
                            THEN NormalizeSegments(rest, acc, isAbsolute)
                            ELSE NormalizeSegments(rest, Append(acc, ".."), isAbsolute)
                  ELSE NormalizeSegments(rest, Append(acc, s), isAbsolute)

\* path.normalize
PathNormalize(p) ==
    IF Len(p) = 0 THEN "."
    ELSE LET isAbsolute == CharAt(p, 1) = "/"
             trailing == CharAt(p, Len(p)) = "/"
             body == JoinSegments(NormalizeSegments(SplitPath(p), <<>>, isAbsolute))
             b1 == IF Len(body) = 0
                   THEN (IF isAbsolute THEN "" ELSE IF trailing THEN "./" ELSE ".")
                   ELSE (IF trailing THEN body \o "/" ELSE body)
         IN  IF isAbsolute THEN "/" \o b1 ELSE b1

\* path.join of two arguments
PathJoin(a, b) ==
    IF Len(a) = 0 /\ Len(b) = 0 THEN "."
    ELSE IF Len(a) = 0 THEN PathNormalize(b)
    ELSE IF Len(b) = 0 THEN PathNormalize(a)
    ELSE PathNormalize(a \o "/" \o b)

\* path.dirname (of a path without trailing slash)
PathDirname(p) ==
    LET i == LastIndexOfChar(p, "/")
    IN  IF i = 0 THEN "."
        ELSE IF i = 1 THEN "/"
        ELSE SubSeq(p, 1, i - 1)

\* path.basename
PathBasename(p) == Substring(p, LastIndexOfChar(p, "/"))

\* path.extname: from the last dot of the base name, "" when there is none or
\* when the base name starts with it
PathExtname(p) ==
    LET base == PathBasename(p)
        i == LastIndexOfChar(base, ".")
    IN  IF i <= 1 THEN "" ELSE Substring(base, i - 1)

-----------------------------------------------------------------------------
(* The project on disk: paths, lines and contents *)

\* the relative paths a project may hold
Paths == {"a.ts", "b.ts", "c.ts", "dist/d.ts"}

\* a line of a file, by the shape of its text
Named(src) == [shape |-> "named", names |-> <<"x">>, source |-> src]
Default(src) == [shape |-> "default", names |-> <<"m">>, source |-> src]
Namespace(src) == [shape |-> "namespace", names |-> <<"ns">>, source |-> src]
SideEffect(src) == [shape |-> "sideEffect", names |-> <<>>, source |-> src]
ExportConst(name) == [shape |-> "exportConst", names |-> <<name>>, source |-> ""]

\* the contents a file may have
Contents ==
    { <<ExportConst("x")>>,
      <<Named("./b")>>,
      <<Default("./a")>>,
      <<Namespace("./c")>>,
      <<SideEffect("./a"), SideEffect("./b")>>,
      <<Named("react"), SideEffect("b")>> }

\* what a write may put in a file: a file the graph never reads has one content
ContentsOf(p) == IF p = "dist/d.ts" THEN {<<ExportConst("x")>>} ELSE Contents

\* the projects the extension may be started on
Scenario ==
    [p \in Paths |->
        IF p = "a.ts" THEN File(<<Named("./b")>>)
        ELSE IF p = "c.ts" THEN File(<<SideEffect("./a"), SideEffect("./b")>>)
        ELSE IF p = "b.ts" THEN File(<<ExportConst("x")>>)
        ELSE Absent]

Ring ==
    [p \in Paths |->
        IF p = "a.ts" THEN File(<<Named("./b")>>)
        ELSE IF p = "b.ts" THEN File(<<Namespace("./c")>>)
        ELSE IF p = "c.ts" THEN File(<<Default("./a")>>)
        ELSE Absent]

Pair ==
    [p \in Paths |->
        IF p = "a.ts" THEN File(<<Named("./b")>>)
        ELSE IF p = "b.ts" THEN File(<<Default("./a")>>)
        ELSE Absent]

Projects == {Scenario, Ring, Pair}

\* A second project: a module lib that exists as lib.ts, lib.js, a directory with
\* an index file, or any mix of them, beside a configuration file.
LibFiles == {"lib.ts", "lib.js", "lib/index.ts", "lib/index.js"}

\* files an exclusion pattern occurs in: inside a file name, as a directory
OutputFiles == {"rebuild.ts", ".nyc_output/run.js"}

LayoutPaths ==
    {"a.ts", "b.ts", "c.ts", "app.config.ts", "a.config.test.ts"}
    \cup LibFiles \cup OutputFiles

\* files that are classified and never parsed
OtherFiles == {"README.md", "tsconfig.json", ".eslintrc.js", "webpack.test.js"}

AllPaths == Paths \cup LayoutPaths \cup OtherFiles

\* a.ts imports lib twice and the configuration file; the index file imports a.ts
Layout(S) ==
    [p \in LayoutPaths |->
        IF p = "a.ts"
        THEN File(<<Named("./lib"), Default("./lib"), SideEffect("./app.config")>>)
        ELSE IF p = "app.config.ts" THEN File(<<ExportConst("x")>>)
        ELSE IF p = "lib/index.ts" /\ p \in S THEN File(<<Named("../a")>>)
        ELSE IF p \in S THEN File(<<ExportConst("x")>>)
        ELSE Absent]

\* two cycles that share no file, joined by the edge b -> a: a <-> c and b -> b
Knot ==
    [p \in LayoutPaths |->
        IF p = "a.ts" THEN File(<<Namespace("./c")>>)
        ELSE IF p = "b.ts" THEN File(<<SideEffect("./a"), SideEffect("./b")>>)
        ELSE IF p = "c.ts" THEN File(<<Default("./a")>>)
        ELSE Absent]

\* the forms of lib the second project starts with
LibForms ==
    { {}, {"lib.ts", "lib.js"}, {"lib.js", "lib/index.ts"}, {"lib.ts", "lib/index.ts"},
      {"lib/index.ts", "lib/index.js"}, {"lib/index.js"} }

\* a.ts beside two files that exclusion patterns occur in, one of them imported,
\* a configuration file and the test of one
Outputs ==
    [p \in LayoutPaths |->
        IF p = "a.ts" THEN File(<<Named("./rebuild")>>)
        ELSE IF p \in OutputFiles \cup {"app.config.ts", "a.config.test.ts"}
        THEN File(<<ExportConst("x")>>)
        ELSE Absent]

LayoutProjects == {Layout(S) : S \in LibForms} \cup {Knot, Outputs}

\* ProjectFile, as ProjectContextManager._analyzeCodeFiles builds it
ProjectFile(rel) ==
    [ path |-> "/ws/" \o rel,
      relativePath |-> rel,
      name |-> PathBasename(rel),
      extension |-> PathExtname(rel) ]

\* the sequences without repetition over a set, of every length up to n
RECURSIVE SeqsUpTo(_, _)
SeqsUpTo(S, n) ==
    IF n = 0 THEN {<<>>}
    ELSE LET shorter == SeqsUpTo(S, n - 1)
         IN  shorter \cup
             {Append(q, x) : q \in {r \in shorter : Len(r) = n - 1},
                             x \in S} 

NoRepeat(q) == \A i, j \in DOMAIN q : q[i] = q[j] => i = j

Orderings(S) == {q \in SeqsUpTo(S, Cardinality(S)) : Len(q) = Cardinality(S) /\ NoRepeat(q)}

-----------------------------------------------------------------------------
(* Import/export extraction *)

JsExtensions == {".ts", ".js", ".tsx", ".jsx"}

ImportInfo(line, lineNumber) ==
    [ source |-> line.source,
      imports |-> line.names,
      isDefaultImport |-> line.shape = "default",
      isNamespaceImport |-> line.shape = "namespace",
      lineNumber |-> lineNumber ]

\* _parseJavaScriptImport: the record as a one-element sequence, <<>> for the
\* null of a line no pattern matches
parseJavaScriptImport(line, lineNumber) ==
    IF line.shape \in {"named", "default", "namespace", "sideEffect"}
    THEN <<ImportInfo(line, lineNumber)>>
    ELSE <<>>

\* _parsePythonImport
parsePythonImport(line, lineNumber) ==
    IF line.shape = "pyFrom"
    THEN <<[ImportInfo(line, lineNumber) EXCEPT !.isNamespaceImport = FALSE]>>
    ELSE IF line.shape = "pyImport"
    THEN <<[ImportInfo(line, lineNumber) EXCEPT !.imports = <<line.source>>,
                                                !.isNamespaceImport = TRUE]>>
    ELSE <<>>

\* _parseJavaImport
parseJavaImport(line, lineNumber) ==
    IF line.shape = "javaImport" THEN <<ImportInfo(line, lineNumber)>> ELSE <<>>

RECURSIVE parseImportsFrom(_, _, _)
parseImportsFrom(content, extension, i) ==
    IF i > Len(content) THEN <<>>
    ELSE LET r == IF extension \in JsExtensions THEN parseJavaScriptImport(content[i], i)
                  ELSE IF extension = ".py" THEN parsePythonImport(content[i], i)
                  ELSE IF extension = ".java" THEN parseJavaImport(content[i], i)
                  ELSE <<>>
         IN  r \o parseImportsFrom(content, extension, i + 1)

\* _parseImports
parseImports(content, extension) == parseImportsFrom(content, extension, 1)

RECURSIVE parseExportsFrom(_, _, _)
parseExportsFrom(content, extension, i) ==
    IF i > Len(content) THEN <<>>
    ELSE LET line == content[i]
             r == IF extension \in JsExtensions /\ line.shape = "exportConst"
                  THEN <<[name |-> line.names[1], type |-> "variable", lineNumber |-> i]>>
                  ELSE IF extension = ".py" /\ line.shape = "pyDef"
                  THEN <<[name |-> line.names[1], type |-> "function", lineNumber |-> i]>>
                  ELSE <<>>
         IN  r \o parseExportsFrom(content, extension, i + 1)

\* _parseExports
parseExports(content, extension) == parseExportsFrom(content, extension, 1)

-----------------------------------------------------------------------------
(* File classification *)

excludePatterns == <<".git", "node_modules", ".vscode", "dist", "build", "coverage", ".nyc_output">>

sourceExtensions == <<".ts", ".js", ".tsx", ".jsx", ".py", ".java", ".cs", ".go", ".rs">>

\* (mutant) a pattern excludes a path only when it is one of its segments
shouldIncludeFile_wholeSegments(file) ==
    /\ \A i \in DOMAIN excludePatterns :
          excludePatterns[i] \notin Range(SplitPath(file.relativePath))
    /\ file.extension \in Range(sourceExtensions)

\* _shouldIncludeFile
shouldIncludeFile(file) ==
    /\ \A i \in DOMAIN excludePatterns : ~StrIncludes(file.relativePath, excludePatterns[i])
    /\ file.extension \in Range(sourceExtensions)

\* (mutant) the configuration patterns are tried before the test patterns
determineFileType_configFirst(file) ==
    LET relativePath == ToLowerCase(file.relativePath)
    IN  IF \/ StrIncludes(relativePath, "config") \/ StrIncludes(relativePath, ".config.")
           \/ StartsWith(file.name, ".") \/ StrIncludes(file.name, "webpack")
           \/ StrIncludes(file.name, "babel") \/ StrIncludes(file.name, "eslint")
           \/ StrIncludes(file.name, "prettier") \/ StrIncludes(file.name, "tsconfig")
        THEN "config"
        ELSE IF \/ StrIncludes(relativePath, "test") \/ StrIncludes(relativePath, "spec")
        THEN "test"
        ELSE IF file.extension \in Range(sourceExtensions) THEN "source"
        ELSE "asset"

\* _determineFileType
determineFileType(file) ==
    LET relativePath == ToLowerCase(file.relativePath)
    IN  IF \/ StrIncludes(relativePath, "test") \/ StrIncludes(relativePath, "spec")
           \/ StrIncludes(relativePath, "__tests__") \/ StrIncludes(relativePath, ".test.")
           \/ StrIncludes(relativePath, ".spec.")
        THEN "test"
        ELSE IF \/ StrIncludes(relativePath, "config") \/ StrIncludes(relativePath, ".config.")
                \/ StartsWith(file.name, ".") \/ StrIncludes(file.name, "webpack")
                \/ StrIncludes(file.name, "babel") \/ StrIncludes(file.name, "eslint")
                \/ StrIncludes(file.name, "prettier") \/ StrIncludes(file.name, "tsconfig")
        THEN "config"
        ELSE IF file.extension \in Range(sourceExtensions) THEN "source"
        ELSE "asset"

-----------------------------------------------------------------------------
(* The node map: a JavaScript Map, iterated in insertion order *)

EmptyMap == [order |-> <<>>, nodes |-> <<>>]

MapHas(g, k) == k \in DOMAIN g.nodes

MapSet(g, k, node) ==
    [ order |-> IF MapHas(g, k) THEN g.order ELSE Append(g.order, k),
      nodes |-> [x \in (DOMAIN g.nodes) \cup {k} |-> IF x = k THEN node ELSE g.nodes[x]] ]

MapDelete(g, k) ==
    [ order |-> SelectSeq(g.order, LAMBDA x : x # k),
      nodes |-> [x \in (DOMAIN g.nodes) \ {k} |-> g.nodes[x]] ]

\* The facts of a path are computed once: the ProjectFile of every path, whether
\* _shouldIncludeFile accepts it, and the type _determineFileType gives it.
\* (f @@ <<>> is f; it makes TLC store the table instead of the expression.)
projectFiles == [p \in AllPaths |-> ProjectFile(p)] @@ <<>>
included == [p \in AllPaths |-> shouldIncludeFile(projectFiles[p])] @@ <<>>
fileTypes == [p \in AllPaths |-> determineFileType(projectFiles[p])] @@ <<>>

-----------------------------------------------------------------------------
(* ProjectContextManager._discoverProjectFiles *)

ignorePatterns ==
    <<"node_modules", ".git", ".vscode", "dist", "build", "coverage", ".next", ".nuxt",
      "out", "target", "bin", "obj", ".vs", "__pycache__", ".pytest_cache", "venv", "env">>

\* the directories above a path, nearest first; none for a path of the root
RECURSIVE Ancestors(_)
Ancestors(p) ==
    IF PathDirname(p) = "." THEN {} ELSE {PathDirname(p)} \cup Ancestors(PathDirname(p))

Directories == UNION {Ancestors(p) : p \in AllPaths}

\* computed once: the directory an entry lies in, and whether scanDirectory
\* passes it over (an ignore pattern occurs in its path relative to the root)
parentOf == [p \in AllPaths \cup Directories |-> PathDirname(p)] @@ <<>>
ignoredEntry ==
    [p \in AllPaths \cup Directories |->
        \E i \in DOMAIN ignorePatterns : StrIncludes(p, ignorePatterns[i])] @@ <<>>

\* readdir: the entries of a directory, by their paths relative to the root
Entries(dir, fs) ==
    LET present == {p \in DOMAIN fs : fs[p].exists}
    IN  [ files |-> {p \in present : parentOf[p] = dir},
          directories |-> {d \in Directories :
                              /\ parentOf[d] = dir
                              /\ \E p \in present : StartsWith(p, d \o "/")} ]

\* scanDirectory: the files found in and below a directory and the directories
\* read on the way (readdir fixes no order, the result is taken as a set)
RECURSIVE scanDirectory(_, _)
scanDirectory(dir, fs) ==
    LET entries == Entries(dir, fs)
        below == {scanDirectory(d, fs) : d \in {e \in entries.directories : ~ignoredEntry[e]}}
    IN  [ files |-> {f \in entries.files : ~ignoredEntry[f]}
                        \cup UNION {r.files : r \in below},
          scanned |-> {dir} \cup UNION {r.scanned : r \in below} ]

\* _discoverProjectFiles, the paths relative to the workspace root
discoverProjectFiles(fs) == scanDirectory(".", fs)

-----------------------------------------------------------------------------
\* _createDependencyNode: a file that cannot be read keeps empty imports/exports
createDependencyNode(file, fs) ==
    LET readable == fs[file.relativePath].exists
        content == fs[file.relativePath].lines
    IN  [ filePath |-> file.path,
          relativePath |-> file.relativePath,
          dependencies |-> <<>>,
          dependents |-> <<>>,
          type |-> fileTypes[file.relativePath],
          imports |-> IF readable THEN parseImports(content, file.extension)
                      ELSE <<>>,
          exports |-> IF readable THEN parseExports(content, file.extension)
                      ELSE <<>> ]

-----------------------------------------------------------------------------
(* Path resolution and edges *)

relativeExtensions == <<".ts", ".js", ".tsx", ".jsx", ".py", ".java">>
aliasExtensions == <<".ts", ".js", ".tsx", ".jsx">>

\* the first candidate of a sequence that is a key of the map, Null if none
RECURSIVE FirstKey(_, _)
FirstKey(g, candidates) ==
    IF candidates = <<>> THEN Null
    ELSE IF MapHas(g, Head(candidates)) THEN Head(candidates)
    ELSE FirstKey(g, Tail(candidates))

\* (mutant) every specifier that is not alias-rooted is probed as a relative one
importCandidates_bareAsRelative(importSource, fromFilePath) ==
    LET resolvedPath == PathNormalize(PathJoin(PathDirname(fromFilePath), importSource))
    IN  IF StartsWith(importSource, "@/") THEN <<>>
        ELSE [i \in DOMAIN relativeExtensions |-> resolvedPath \o relativeExtensions[i]]

\* (mutant) the index files are probed before the direct files
importCandidates_indexFirst(importSource, fromFilePath) ==
    LET resolvedPath == PathNormalize(PathJoin(PathDirname(fromFilePath), importSource))
        direct == [i \in DOMAIN relativeExtensions |-> resolvedPath \o relativeExtensions[i]]
        index == [i \in DOMAIN relativeExtensions |->
                     PathJoin(resolvedPath, "index" \o relativeExtensions[i])]
    IN  IF StartsWith(importSource, "./") \/ StartsWith(importSource, "../")
        THEN index \o direct
        ELSE IF StartsWith(importSource, "@/")
        THEN [i \in DOMAIN aliasExtensions |->
                 "src/" \o Substring(importSource, 2) \o aliasExtensions[i]]
        ELSE <<>>

\* the paths _resolveImportPath probes for a specifier, in probe order: for a
\* relative specifier the target with each extension, then index.<ext> inside it;
\* for an alias-rooted one src/<rest> with each extension; none for any other
importCandidates(importSource, fromFilePath) ==
    LET fromDir == PathDirname(fromFilePath)
        resolvedPath == PathNormalize(PathJoin(fromDir, importSource))
        direct == [i \in DOMAIN relativeExtensions |-> resolvedPath \o relativeExtensions[i]]
        index == [i \in DOMAIN relativeExtensions |->
                     PathJoin(resolvedPath, "index" \o relativeExtensions[i])]
        relative == IF StartsWith(importSource, "./") \/ StartsWith(importSource, "../")
                    THEN direct \o index
                    ELSE <<>>
        alias == IF StartsWith(importSource, "@/")
                 THEN [i \in DOMAIN aliasExtensions |->
                          "src/" \o Substring(importSource, 2) \o aliasExtensions[i]]
                 ELSE <<>>
    IN  relative \o alias

\* the specifiers the contents import
Specifiers ==
    UNION {{c[i].source : i \in DOMAIN c} : c \in Contents}
    \cup {"./lib", "./app.config", "../a", "../lib", "./lib/index", "./d", "@/a",
          "./rebuild"}

\* computed once per specifier and importing file
candidates == [x \in Specifiers \X AllPaths |-> importCandidates(x[1], x[2])] @@ <<>>

\* _resolveImportPath: the first probed path that is a key of the node map
resolveImportPath(g, importSource, fromFilePath) ==
    FirstKey(g, candidates[<<importSource, fromFilePath>>])

RECURSIVE resolveAll(_, _, _, _)
resolveAll(g, node, i, deps) ==
    IF i > Len(node.imports) THEN deps
    ELSE LET resolvedPath == resolveImportPath(g, node.imports[i].source, node.relativePath)
         IN  resolveAll(g, node, i + 1,
                 IF resolvedPath # Null /\ MapHas(g, resolvedPath)
                 THEN Append(deps, resolvedPath)
                 ELSE deps)

\* (mutant) the loop returns after the first import
analyzeDependencies_firstOnly(g, node) ==
    [node EXCEPT !.dependencies =
        Dedup(resolveAll(g, [node EXCEPT !.imports = SubSeq(@, 1, Min(1, Len(@)))], 1, node.dependencies))]

\* (mutant) the resolved paths are kept as pushed
analyzeDependencies_noDedup(g, node) ==
    [node EXCEPT !.dependencies = resolveAll(g, node, 1, node.dependencies)]

\* _analyzeDependencies: the node with its dependencies extended and deduplicated
analyzeDependencies(g, node) ==
    [node EXCEPT !.dependencies = Dedup(resolveAll(g, node, 1, node.dependencies))]

\* (mutant) the inner loop stops after the first dependency
pushDependents_firstOnly(nodes, filePath, deps) ==
    IF deps = <<>> THEN nodes
    ELSE IF Head(deps) \in DOMAIN nodes /\ filePath \notin Range(nodes[Head(deps)].dependents)
    THEN [nodes EXCEPT ![Head(deps)].dependents = Append(@, filePath)]
    ELSE nodes

\* one node's dependencies pushed onto the dependents of their targets
RECURSIVE pushDependents(_, _, _)
pushDependents(nodes, filePath, deps) ==
    IF deps = <<>> THEN nodes
    ELSE LET d == Head(deps)
         IN  pushDependents(
                 IF d \in DOMAIN nodes /\ filePath \notin Range(nodes[d].dependents)
                 THEN [nodes EXCEPT ![d].dependents = Append(@, filePath)]
                 ELSE nodes,
                 filePath, Tail(deps))

RECURSIVE reverseFrom(_, _, _)
reverseFrom(nodes, order, i) ==
    IF i > Len(order) THEN nodes
    ELSE reverseFrom(pushDependents(nodes, order[i], nodes[order[i]].dependencies),
                     order, i + 1)

\* _buildReverseDependencies
buildReverseDependencies(g) ==
    [g EXCEPT !.nodes =
        reverseFrom([k \in DOMAIN g.nodes |-> [g.nodes[k] EXCEPT !.dependents = <<>>]],
                    g.order, 1)]

\* step 1 of _buildDependencyGraph: a node per included file
RECURSIVE createNodes(_, _, _, _)
createNodes(g, files, i, fs) ==
    IF i > Len(files) THEN g
    ELSE createNodes(
             IF included[files[i].relativePath]
             THEN MapSet(g, files[i].relativePath, createDependencyNode(files[i], fs))
             ELSE g,
             files, i + 1, fs)

\* step 2 of _buildDependencyGraph: forward edges of every node
analyzeAll(g) ==
    [g EXCEPT !.nodes = [k \in DOMAIN g.nodes |-> analyzeDependencies(g, g.nodes[k])]]

\* (mutant) a single pass: the imports of a node are resolved as it is inserted,
\* against the nodes inserted before it
RECURSIVE createNodes_analyzing(_, _, _, _)
createNodes_analyzing(g, files, i, fs) ==
    IF i > Len(files) THEN g
    ELSE LET k == files[i].relativePath
             g1 == MapSet(g, k, createDependencyNode(files[i], fs))
         IN  createNodes_analyzing(
                 IF included[k]
                 THEN [g1 EXCEPT !.nodes[k] = analyzeDependencies(g1, @)]
                 ELSE g,
                 files, i + 1, fs)

buildDependencyGraph_onePass(files, fs) ==
    buildReverseDependencies(createNodes_analyzing(EmptyMap, files, 1, fs))

\* _buildDependencyGraph
buildDependencyGraph(files, fs) ==
    buildReverseDependencies(analyzeAll(createNodes(EmptyMap, files, 1, fs)))

\* (mutant) the failed read is not caught: the loop ends at the first file of
\* the batch that cannot be read
RECURSIVE updateNodes_abortOnUnreadable(_, _, _, _)
updateNodes_abortOnUnreadable(g, files, i, fs) ==
    IF i > Len(files) THEN g
    ELSE IF included[files[i].relativePath] /\ ~fs[files[i].relativePath].exists THEN g
    ELSE updateNodes_abortOnUnreadable(
             IF included[files[i].relativePath]
             THEN MapSet(g, files[i].relativePath, createDependencyNode(files[i], fs))
             ELSE MapDelete(g, files[i].relativePath),
             files, i + 1, fs)

\* first loop of updateGraph: set or delete the node of each file of the batch
RECURSIVE updateNodes(_, _, _, _)
updateNodes(g, files, i, fs) ==
    IF i > Len(files) THEN g
    ELSE updateNodes(
             IF included[files[i].relativePath]
             THEN MapSet(g, files[i].relativePath, createDependencyNode(files[i], fs))
             ELSE MapDelete(g, files[i].relativePath),
             files, i + 1, fs)

\* (mutant) the second loop re-resolves the imports of every node of the map
reanalyze_all(g, files, i) ==
    [g EXCEPT !.nodes =
        [k \in DOMAIN g.nodes |->
            analyzeDependencies(g, [g.nodes[k] EXCEPT !.dependencies = <<>>])]]

\* second loop of updateGraph: forward edges of the nodes of the batch
RECURSIVE reanalyze(_, _, _)
reanalyze(g, files, i) ==
    IF i > Len(files) THEN g
    ELSE LET k == files[i].relativePath
         IN  reanalyze(
                 IF MapHas(g, k)
                 THEN [g EXCEPT !.nodes[k] =
                          analyzeDependencies(g, [g.nodes[k] EXCEPT !.dependencies = <<>>])]
                 ELSE g,
                 files, i + 1)

\* (mutant) the update forgets to rebuild the reverse index
updatedGraph_noReverse(g, files, fs) ==
    reanalyze(updateNodes(g, files, 1, fs), files, 1)

\* the body of updateGraph past its guard
updatedGraph(g, files, fs) ==
    buildReverseDependencies(reanalyze(updateNodes(g, files, 1, fs), files, 1))

-----------------------------------------------------------------------------
(* Cycle detection *)

\* _detectCycle: the cycle found (<<>> if none) with the visited set and the
\* recursion stack as the call leaves them
RECURSIVE detectCycle(_, _, _, _, _)
RECURSIVE detectCycleLoop(_, _, _, _, _, _)
detectCycle(g, filePath, visited, recursionStack, currentPath) ==
    LET v == visited \cup {filePath}
        s == recursionStack \cup {filePath}
        path == Append(currentPath, filePath)
    IN  IF ~MapHas(g, filePath)
        THEN [cycle |-> <<>>, visited |-> v, recursionStack |-> s]
        ELSE detectCycleLoop(g, filePath, 1, v, s, path)

detectCycleLoop(g, filePath, i, visited, recursionStack, currentPath) ==
    LET deps == g.nodes[filePath].dependencies
    IN  IF i > Len(deps)
        THEN [cycle |-> <<>>, visited |-> visited,
              recursionStack |-> recursionStack \ {filePath}]
        ELSE LET dependency == deps[i]
             IN  IF dependency \in recursionStack
                 THEN LET cycleStart == IndexOf(currentPath, dependency)
                      IN  [cycle |-> Append(Slice(currentPath, cycleStart), dependency),
                           visited |-> visited, recursionStack |-> recursionStack]
                 ELSE IF dependency \notin visited
                 THEN LET r == detectCycle(g, dependency, visited, recursionStack, currentPath)
                      IN  IF Len(r.cycle) > 0 THEN r
                          ELSE detectCycleLoop(g, filePath, i + 1, r.visited,
                                               r.recursionStack, currentPath)
                 ELSE detectCycleLoop(g, filePath, i + 1, visited, recursionStack, currentPath)

\* (mutant) strict comparisons
calculateCycleSeverity_strict(cycle) ==
    IF Len(cycle) < 2 THEN "high"
    ELSE IF Len(cycle) < 4 THEN "medium"
    ELSE "low"

\* _calculateCycleSeverity
calculateCycleSeverity(cycle) ==
    IF Len(cycle) <= 2 THEN "high"
    ELSE IF Len(cycle) <= 4 THEN "medium"
    ELSE "low"

\* (mutant) the search starts from the first key only
findCyclesFrom_firstOnly(g, i, visited, recursionStack, circularDeps) ==
    IF i > Len(g.order) THEN circularDeps
    ELSE LET r == detectCycle(g, g.order[i], visited, recursionStack, <<>>)
         IN  IF Len(r.cycle) > 0
             THEN Append(circularDeps,
                         [cycle |-> r.cycle, severity |-> calculateCycleSeverity(r.cycle)])
             ELSE circularDeps

RECURSIVE findCyclesFrom(_, _, _, _, _)
findCyclesFrom(g, i, visited, recursionStack, circularDeps) ==
    IF i > Len(g.order) THEN circularDeps
    ELSE IF g.order[i] \in visited
    THEN findCyclesFrom(g, i + 1, visited, recursionStack, circularDeps)
    ELSE LET r == detectCycle(g, g.order[i], visited, recursionStack, <<>>)
         IN  findCyclesFrom(g, i + 1, r.visited, r.recursionStack,
                 IF Len(r.cycle) > 0
                 THEN Append(circularDeps,
                             [cycle |-> r.cycle, severity |-> calculateCycleSeverity(r.cycle)])
                 ELSE circularDeps)

\* the body of findCircularDependencies past its guard
circularDependencies(g) == findCyclesFrom(g, 1, {}, {}, <<>>)

-----------------------------------------------------------------------------
(* Metrics *)

RECURSIVE calculateNodeDepth(_, _, _)
RECURSIVE maxChildDepth(_, _, _, _)
\* (mutant) a node without dependencies has depth 0
calculateNodeDepth_leafZero(g, filePath, visited) ==
    IF filePath \in visited THEN 0
    ELSE IF ~MapHas(g, filePath) THEN 0
    ELSE IF Len(g.nodes[filePath].dependencies) = 0 THEN 0
    ELSE maxChildDepth(g, g.nodes[filePath].dependencies, 1, visited \cup {filePath}) + 1

\* (mutant) a revisited node counts like a leaf
calculateNodeDepth_revisitOne(g, filePath, visited) ==
    IF filePath \in visited THEN 1
    ELSE IF ~MapHas(g, filePath) THEN 1
    ELSE IF Len(g.nodes[filePath].dependencies) = 0 THEN 1
    ELSE maxChildDepth(g, g.nodes[filePath].dependencies, 1, visited \cup {filePath}) + 1

\* _calculateNodeDepth
calculateNodeDepth(g, filePath, visited) ==
    IF filePath \in visited THEN 0
    ELSE IF ~MapHas(g, filePath) THEN 1
    ELSE IF Len(g.nodes[filePath].dependencies) = 0 THEN 1
    ELSE maxChildDepth(g, g.nodes[filePath].dependencies, 1, visited \cup {filePath}) + 1

maxChildDepth(g, deps, i, visited) ==
    IF i > Len(deps) THEN 0
    ELSE Max(calculateNodeDepth(g, deps[i], visited), maxChildDepth(g, deps, i + 1, visited))

RECURSIVE SumOver(_, _)
SumOver(f, S) ==
    IF S = {} THEN 0
    ELSE LET x == CHOOSE y \in S : TRUE IN f[x] + SumOver(f, S \ {x})

MaxOver(f, S) == IF S = {} THEN 0 ELSE CHOOSE m \in {f[x] : x \in S} : \A x \in S : f[x] <= m

\* _calculateGraphMetrics (averageDepth kept as the pair total / count)
calculateGraphMetrics(g) ==
    LET keys == DOMAIN g.nodes
        depth == [k \in keys |-> calculateNodeDepth(g, g.nodes[k].relativePath, {})]
    IN  [ totalNodes |-> Cardinality(keys),
          totalEdges |-> SumOver([k \in keys |-> Len(g.nodes[k].dependencies)], keys),
          totalDepth |-> SumOver(depth, keys),
          maxDepth |-> MaxOver(depth, keys) ]

\* _getFileTypeDistribution
getFileTypeDistribution(g) ==
    LET types == {g.nodes[k].type : k \in DOMAIN g.nodes}
    IN  [t \in types |-> Cardinality({k \in DOMAIN g.nodes : g.nodes[k].type = t})]

-----------------------------------------------------------------------------
(* Results of the read accessors *)

NotInitialized == [threw |-> "DEPENDENCY_GRAPH_NOT_INITIALIZED"]

Threw(r) == "threw" \in DOMAIN r

\* a null return
NullResult == [isNull |-> TRUE]

\* (mutant) the guard is missing
getDependencies_noGuard(g, initialized, filePath) ==
    IF ~MapHas(g, filePath) THEN NullResult
    ELSE [value |-> [ file |-> filePath,
                      dependencies |-> g.nodes[filePath].dependencies,
                      dependents |-> g.nodes[filePath].dependents,
                      imports |-> g.nodes[filePath].imports,
                      exports |-> g.nodes[filePath].exports,
                      type |-> g.nodes[filePath].type ]]

\* getDependencies
getDependencies(g, initialized, filePath) ==
    IF ~initialized THEN NotInitialized
    ELSE IF ~MapHas(g, filePath) THEN NullResult
    ELSE [value |-> [ file |-> filePath,
                      dependencies |-> g.nodes[filePath].dependencies,
                      dependents |-> g.nodes[filePath].dependents,
                      imports |-> g.nodes[filePath].imports,
                      exports |-> g.nodes[filePath].exports,
                      type |-> g.nodes[filePath].type ]]

\* findCircularDependencies
findCircularDependencies(g, initialized) ==
    IF ~initialized THEN NotInitialized
    ELSE [value |-> circularDependencies(g)]

RECURSIVE edgesFrom(_, _)
edgesFrom(g, i) ==
    IF i > Len(g.order) THEN <<>>
    ELSE [j \in DOMAIN g.nodes[g.order[i]].dependencies |->
             [from |-> g.order[i], to |-> g.nodes[g.order[i]].dependencies[j],
              type |-> "dependency"]]
         \o edgesFrom(g, i + 1)

\* getGraphVisualization
getGraphVisualization(g, initialized) ==
    IF ~initialized THEN NotInitialized
    ELSE [value |->
            [ nodes |-> [i \in DOMAIN g.order |->
                            [ id |-> g.order[i],
                              label |-> PathBasename(g.order[i]),
                              type |-> g.nodes[g.order[i]].type,
                              dependencyCount |-> Len(g.nodes[g.order[i]].dependencies),
                              dependentCount |-> Len(g.nodes[g.order[i]].dependents) ]],
              edges |-> edgesFrom(g, 1),
              metrics |-> calculateGraphMetrics(g) ]]

\* Array.prototype.sort with the comparator (a, b) => count[b] - count[a]:
\* descending by count, equal counts keeping their order
RECURSIVE SortDescending(_, _)
SortDescending(arr, count) ==
    IF arr = <<>> THEN <<>>
    ELSE LET init == SortDescending(SubSeq(arr, 1, Len(arr) - 1), count)
             x == arr[Len(arr)]
             n == Cardinality({i \in DOMAIN init : count[init[i]] >= count[x]})
         IN  SubSeq(init, 1, n) \o <<x>> \o SubSeq(init, n + 1, Len(init))

\* .slice(0, 5).map(...) of _getTopDependencyFiles
TopFive(arr, count) ==
    [i \in 1..Min(5, Len(arr)) |-> [file |-> arr[i], count |-> count[arr[i]]]]

\* _getTopDependencyFiles: Array.from copies the entries of the map; the copy is
\* sorted in place twice, the second sort starting from the result of the first
getTopDependencyFiles(g) ==
    LET dependents == [k \in DOMAIN g.nodes |-> Len(g.nodes[k].dependents)]
        dependencies == [k \in DOMAIN g.nodes |-> Len(g.nodes[k].dependencies)]
        first == SortDescending(g.order, dependents)
        second == SortDescending(first, dependencies)
    IN  [ mostDependent |-> TopFive(first, dependents),
          mostDependencies |-> TopFive(second, dependencies) ]

\* getDependencyReport
getDependencyReport(g, initialized) ==
    IF ~initialized THEN NotInitialized
    ELSE LET metrics == calculateGraphMetrics(g)
             topFiles == getTopDependencyFiles(g)
         IN  [value |->
                [ totalFiles |-> Cardinality(DOMAIN g.nodes),
                  totalDependencies |-> metrics.totalEdges,
                  circularDependencies |-> circularDependencies(g),
                  mostDependentFiles |-> topFiles.mostDependent,
                  mostDependencyFiles |-> topFiles.mostDependencies,
                  totalDepth |-> metrics.totalDepth,
                  maxDepth |-> metrics.maxDepth,
                  fileTypes |-> getFileTypeDistribution(g) ]]

\* (mutant) the status counts the import records of the nodes
getGraphStatus_countsImports(g, initialized) ==
    IF ~initialized
    THEN [value |-> [isInitialized |-> FALSE, totalNodes |-> 0, totalEdges |-> 0,
                     circularDependencies |-> 0]]
    ELSE [value |->
            [ isInitialized |-> initialized,
              totalNodes |-> Cardinality(DOMAIN g.nodes),
              totalEdges |-> SumOver([k \in DOMAIN g.nodes |-> Len(g.nodes[k].imports)],
                                     DOMAIN g.nodes),
              circularDependencies |-> Len(circularDependencies(g)) ]]

\* getGraphStatus
getGraphStatus(g, initialized) ==
    IF ~initialized
    THEN [value |-> [isInitialized |-> FALSE, totalNodes |-> 0, totalEdges |-> 0,
                     circularDependencies |-> 0]]
    ELSE [value |->
            [ isInitialized |-> initialized,
              totalNodes |-> Cardinality(DOMAIN g.nodes),
              totalEdges |-> SumOver([k \in DOMAIN g.nodes |-> Len(g.nodes[k].dependencies)],
                                     DOMAIN g.nodes),
              circularDependencies |-> Len(circularDependencies(g)) ]]

-----------------------------------------------------------------------------
(* The state machine *)

\* _currentAnalysis before the first analysis is assigned
NoContext == [kind |-> "null", started |-> 0]

\* ProjectContextManager after construction: the watcher is registered, nothing runs
ContextInit ==
    /\ analysisInProgress = FALSE
    /\ currentAnalysis = NoContext
    /\ timers = 0
    /\ running = <<>>
    /\ events = 0
    /\ started = 0

Init ==
    /\ disk \in Projects
    /\ projectAnalysis = NoAnalysis
    /\ dependencyGraph = EmptyMap
    /\ isInitialized = FALSE
    /\ edits = 0
    /\ last = [op |-> "new"]
    /\ task = Idle
    /\ ContextInit

\* the file system changes under the extension: a file is written
WriteFile(p, content) ==
    /\ edits < MaxEdits
    /\ disk[p] # File(content)
    /\ disk' = [disk EXCEPT ![p] = File(content)]
    /\ edits' = edits + 1
    /\ last' = [op |-> "write"]
    /\ UNCHANGED <<projectAnalysis, dependencyGraph, isInitialized, contextVars, task>>

\* ... or deleted
DeleteFile(p) ==
    /\ edits < MaxEdits
    /\ disk[p] # Absent
    /\ disk' = [disk EXCEPT ![p] = Absent]
    /\ edits' = edits + 1
    /\ last' = [op |-> "delete"]
    /\ UNCHANGED <<projectAnalysis, dependencyGraph, isInitialized, contextVars, task>>

\* initialize(projectAnalysis): the analysis lists the files on disk, in some order
Initialize(order) ==
    LET files == [i \in DOMAIN order |-> projectFiles[order[i]]]
    IN  /\ projectAnalysis' = [present |-> TRUE, files |-> files]
        /\ dependencyGraph' = buildDependencyGraph(files, disk)
        /\ isInitialized' = TRUE
        /\ last' = [op |-> "initialize"]
        /\ UNCHANGED <<disk, edits, contextVars, task>>

\* (mutant) updateGraph without its guard
UpdateGraph_noGuard(batch) ==
    LET after == updatedGraph(dependencyGraph, [i \in DOMAIN batch |-> projectFiles[batch[i]]],
                              disk)
    IN  /\ dependencyGraph' = after
        /\ last' = [op |-> "updateGraph", changed |-> after # dependencyGraph,
                    unreadable |-> \E i \in DOMAIN batch : ~disk[batch[i]].exists]
        /\ UNCHANGED <<disk, projectAnalysis, isInitialized, edits, contextVars, task>>

\* updateGraph(updatedFiles)
UpdateGraph(batch) ==
    LET updatedFiles == [i \in DOMAIN batch |-> projectFiles[batch[i]]]
        after == IF ~isInitialized \/ ~projectAnalysis.present
                 THEN dependencyGraph
                 ELSE updatedGraph(dependencyGraph, updatedFiles, disk)
    IN  /\ dependencyGraph' = after
        /\ last' = [op |-> "updateGraph", changed |-> after # dependencyGraph,
                    unreadable |-> \E i \in DOMAIN batch : ~disk[batch[i]].exists]
        /\ UNCHANGED <<disk, projectAnalysis, isInitialized, edits, contextVars, task>>

\* dispose()
Dispose ==
    /\ dependencyGraph' = EmptyMap
    /\ isInitialized' = FALSE
    /\ last' = [op |-> "dispose"]
    /\ UNCHANGED <<disk, projectAnalysis, edits, contextVars, task>>

Read(op, result) ==
    /\ last' = [op |-> op, result |-> result]
    /\ UNCHANGED <<disk, projectAnalysis, dependencyGraph, isInitialized, edits, contextVars, task>>

GetDependencies(p) ==
    Read("getDependencies", getDependencies(dependencyGraph, isInitialized, p))

FindCircularDependencies ==
    Read("findCircularDependencies", findCircularDependencies(dependencyGraph, isInitialized))

GetGraphVisualization ==
    Read("getGraphVisualization", getGraphVisualization(dependencyGraph, isInitialized))

\* (mutant) the report reverses each node's dependents list in place
GetDependencyReport_reversesInPlace ==
    /\ last' = [op |-> "getDependencyReport",
                result |-> getDependencyReport(dependencyGraph, isInitialized)]
    /\ dependencyGraph' =
           [dependencyGraph EXCEPT !.nodes =
               [k \in DOMAIN @ |->
                   [@[k] EXCEPT !.dependents =
                       [i \in DOMAIN @ |-> @[Len(@) + 1 - i]]]]]
    /\ UNCHANGED <<disk, projectAnalysis, isInitialized, edits, contextVars, task>>

GetDependencyReport ==
    Read("getDependencyReport", getDependencyReport(dependencyGraph, isInitialized))

GetGraphStatus ==
    Read("getGraphStatus", getGraphStatus(dependencyGraph, isInitialized))

\* the batches updateGraph is called with
Batches == {q \in SeqsUpTo(Paths, MaxBatch) : NoRepeat(q)}

\* the orders an analysis may list a set of files in
orderings == [S \in SUBSET Paths |-> Orderings(S)] @@ <<>>

\* the files on disk
Present == {p \in DOMAIN disk : disk[p].exists}

Next ==
    \/ \E p \in Paths : \E content \in ContentsOf(p) : WriteFile(p, content)
    \/ \E p \in Paths : DeleteFile(p)
    \/ \E order \in orderings[Present] : Initialize(order)
    \/ \E batch \in Batches : UpdateGraph(batch)
    \/ Dispose
    \/ \E p \in Paths : GetDependencies(p)
    \/ FindCircularDependencies
    \/ GetGraphVisualization
    \/ GetDependencyReport
    \/ GetGraphStatus

Spec == Init /\ [][Next]_vars

-----------------------------------------------------------------------------
(* The same manager over the second project.  The analysis handed to initialize
   was computed earlier: it lists the files on disk, or those and lib.ts, which
   has been deleted since. *)

LayoutInit ==
    /\ disk \in LayoutProjects
    /\ projectAnalysis = NoAnalysis
    /\ dependencyGraph = EmptyMap
    /\ isInitialized = FALSE
    /\ edits = 0
    /\ last = [op |-> "new"]
    /\ task = Idle
    /\ ContextInit

\* the order in which a directory scan lists the files
Scan == <<".nyc_output/run.js", "a.config.test.ts", "a.ts", "app.config.ts", "b.ts", "c.ts", "lib.js",
          "lib.ts", "lib/index.js", "lib/index.ts", "rebuild.ts">>

Reverse(q) == [i \in DOMAIN q |-> q[Len(q) + 1 - i]]

\* the orders an analysis may list the files S in: any order of up to three
\* files, the scan order and its reverse for more
LayoutOrders(S) ==
    IF Cardinality(S) <= 3 THEN Orderings(S)
    ELSE LET q == SelectSeq(Scan, LAMBDA p : p \in S) IN {q, Reverse(q)}

Listings == {Present, Present \cup {"lib.ts"}}

LayoutBatches ==
    {q \in SeqsUpTo({"a.ts", "lib.ts", "lib/index.ts", "rebuild.ts"}, MaxBatch) : NoRepeat(q)}

\* what an edit may leave in a.ts
LayoutContents == { <<Named("./lib/index"), SideEffect("./b")>> }

LayoutNext ==
    \/ \E content \in LayoutContents : WriteFile("a.ts", content)
    \/ WriteFile("lib.ts", <<ExportConst("x")>>)
    \/ \E p \in {"lib.ts", "lib/index.ts"} : DeleteFile(p)
    \/ \E S \in Listings : \E order \in LayoutOrders(S) : Initialize(order)
    \/ \E batch \in LayoutBatches : UpdateGraph(batch)
    \/ Dispose
    \/ \E p \in {"a.ts", "lib.ts"} : GetDependencies(p)
    \/ FindCircularDependencies
    \/ GetGraphVisualization
    \/ GetDependencyReport
    \/ GetGraphStatus

SpecLayout == LayoutInit /\ [][LayoutNext]_vars

-----------------------------------------------------------------------------
(* ProjectContextManager: the file watcher, the debounce timer and the analysis
   passes.  JavaScript runs one callback at a time; a pass gives way to other
   callbacks where it awaits the file system: while _discoverProjectFiles reads
   the directories ("discover"), while _analyzeCodeFiles reads the files
   ("analyze") and, for the pass of initializeProjectContext, while
   workspaceState.update stores the result ("store"). *)

\* a call of _performFullAnalysis: who made it, the how-manieth call it is, and
\* where it stands
Pass(kind, n) == [kind |-> kind, started |-> n, step |-> "discover"]

RemoveAt(q, i) == SubSeq(q, 1, i - 1) \o SubSeq(q, i + 1, Len(q))

\* initializeProjectContext, up to the first read of _performFullAnalysis; the
\* call made while the flag is set returns null
InitializeProjectContext ==
    /\ events < MaxEvents
    /\ events' = events + 1
    /\ IF analysisInProgress
       THEN /\ last' = [op |-> "initializeProjectContext", result |-> NullResult]
            /\ UNCHANGED <<analysisInProgress, running, started>>
       ELSE /\ analysisInProgress' = TRUE
            /\ started' = started + 1
            /\ running' = Append(running, Pass("full", started + 1))
            /\ last' = [op |-> "initializeProjectContext", result |-> [pending |-> TRUE]]
    /\ UNCHANGED <<currentAnalysis, timers, disk, projectAnalysis, dependencyGraph,
                   isInitialized, edits, task>>

\* _onFileCreated, _onFileChanged, _onFileDeleted: the three handlers have the
\* same body; ignored is the answer of _shouldIgnoreFile
OnFileEvent(ignored) ==
    /\ events < MaxEvents
    /\ events' = events + 1
    /\ timers' = IF ignored \/ analysisInProgress THEN timers ELSE timers + 1
    /\ last' = [op |-> "fileEvent", ignored |-> ignored]
    /\ UNCHANGED <<analysisInProgress, currentAnalysis, running, started, disk,
                   projectAnalysis, dependencyGraph, isInitialized, edits, task>>

\* the callback of setTimeout in _incrementalUpdate, up to the first read
TimerFires ==
    /\ timers > 0
    /\ timers' = timers - 1
    /\ started' = started + 1
    /\ running' = Append(running, Pass("incremental", started + 1))
    /\ last' = [op |-> "timer"]
    /\ UNCHANGED <<analysisInProgress, currentAnalysis, events, disk, projectAnalysis,
                   dependencyGraph, isInitialized, edits, task>>

\* _performFullAnalysis: the directories are read, the files are being read
FilesDiscovered(i) ==
    /\ running[i].step = "discover"
    /\ running' = [running EXCEPT ![i].step = "analyze"]
    /\ UNCHANGED <<analysisInProgress, currentAnalysis, timers, events, started, graphVars, task>>

\* _performFullAnalysis returns to its caller, which assigns _currentAnalysis;
\* the timer callback fires onContextUpdated at once, initializeProjectContext
\* goes on to store the analysis
FilesAnalyzed(i) ==
    /\ running[i].step = "analyze"
    /\ currentAnalysis' = [kind |-> running[i].kind, started |-> running[i].started]
    /\ IF running[i].kind = "full"
       THEN /\ running' = [running EXCEPT ![i].step = "store"]
            /\ UNCHANGED last
       ELSE /\ running' = RemoveAt(running, i)
            /\ last' = [op |-> "onContextUpdated", analysis |-> running[i].started]
    /\ UNCHANGED <<analysisInProgress, timers, events, started, disk, projectAnalysis,
                   dependencyGraph, isInitialized, edits, task>>

\* initializeProjectContext past workspaceState.update: the event is fired and
\* the finally block clears the flag
ContextStored(i) ==
    /\ running[i].step = "store"
    /\ running' = RemoveAt(running, i)
    /\ analysisInProgress' = FALSE
    /\ last' = [op |-> "onContextUpdated", analysis |-> running[i].started]
    /\ UNCHANGED <<currentAnalysis, timers, events, started, disk, projectAnalysis,
                   dependencyGraph, isInitialized, edits, task>>

\* workspaceState.update rejects: the catch block throws CONTEXT_INIT_ERROR, no
\* event is fired, the finally block clears the flag
StoreFails(i) ==
    /\ running[i].step = "store"
    /\ running' = RemoveAt(running, i)
    /\ analysisInProgress' = FALSE
    /\ last' = [op |-> "initializeProjectContext", result |-> [threw |-> "CONTEXT_INIT_ERROR"]]
    /\ UNCHANGED <<currentAnalysis, timers, events, started, disk, projectAnalysis,
                   dependencyGraph, isInitialized, edits, task>>

\* the dependency graph manager is constructed and left alone
ContextSpecInit ==
    /\ disk = Scenario
    /\ projectAnalysis = NoAnalysis
    /\ dependencyGraph = EmptyMap
    /\ isInitialized = FALSE
    /\ edits = 0
    /\ last = [op |-> "new"]
    /\ task = Idle
    /\ ContextInit

ContextNext ==
    \/ InitializeProjectContext
    \/ \E ignored \in BOOLEAN : OnFileEvent(ignored)
    \/ TimerFires
    \/ \E i \in DOMAIN running : FilesDiscovered(i)
    \/ \E i \in DOMAIN running : FilesAnalyzed(i)
    \/ \E i \in DOMAIN running : ContextStored(i)
    \/ \E i \in DOMAIN running : StoreFails(i)

SpecContext == ContextSpecInit /\ [][ContextNext]_vars

\* Timers fire and reads and writes of the file system come to an end; nothing
\* makes a file change or a caller call.
ContextFairness ==
    /\ WF_vars(TimerFires)
    /\ WF_vars(\E i \in DOMAIN running : FilesDiscovered(i))
    /\ WF_vars(\E i \in DOMAIN running : FilesAnalyzed(i))
    /\ WF_vars(\E i \in DOMAIN running : ContextStored(i) \/ StoreFails(i))

SpecContextLive == ContextSpecInit /\ [][ContextNext]_vars /\ ContextFairness

-----------------------------------------------------------------------------
(* The manager with its file reads as steps.  initialize and updateGraph give
   way to other callbacks where _createDependencyNode awaits fs.readFile, once
   for every file _shouldIncludeFile accepts; the accessors and dispose are
   synchronous and run between two such steps.  One call of initialize or
   updateGraph is under way at a time. *)

\* the first file from position i on whose content is read, Len(files) + 1 if none
NextRead(files, i) ==
    LET hits == {j \in i..Len(files) : included[files[j].relativePath]}
    IN  IF hits = {} THEN Len(files) + 1 ELSE CHOOSE j \in hits : \A k \in hits : j <= k

\* initialize, up to its first file read: the analysis is stored and the map
\* cleared; the flag is left as it is
BeginInitialize(order) ==
    LET files == [i \in DOMAIN order |-> projectFiles[order[i]]]
        j == NextRead(files, 1)
    IN  /\ task = Idle
        /\ projectAnalysis' = [present |-> TRUE, files |-> files]
        /\ IF j > Len(files)
           THEN /\ dependencyGraph' = buildDependencyGraph(files, disk)
                /\ isInitialized' = TRUE
                /\ task' = Idle
                /\ last' = [op |-> "initialize"]
           ELSE /\ dependencyGraph' = EmptyMap
                /\ task' = [op |-> "initialize", files |-> files, i |-> j]
                /\ last' = [op |-> "readFile"]
                /\ UNCHANGED isInitialized
        /\ UNCHANGED <<disk, edits, contextVars>>

\* updateGraph, up to its first file read
BeginUpdateGraph(batch) ==
    LET files == [i \in DOMAIN batch |-> projectFiles[batch[i]]]
        j == NextRead(files, 1)
        g == updateNodes(dependencyGraph, SubSeq(files, 1, j - 1), 1, disk)
    IN  /\ task = Idle
        /\ IF ~isInitialized \/ ~projectAnalysis.present
           THEN /\ last' = [op |-> "updateGraph"]
                /\ UNCHANGED <<dependencyGraph, task>>
           ELSE IF j > Len(files)
           THEN /\ dependencyGraph' = buildReverseDependencies(reanalyze(g, files, 1))
                /\ task' = Idle
                /\ last' = [op |-> "updateGraph"]
           ELSE /\ dependencyGraph' = g
                /\ task' = [op |-> "updateGraph", files |-> files, i |-> j]
                /\ last' = [op |-> "readFile"]
        /\ UNCHANGED <<disk, projectAnalysis, isInitialized, edits, contextVars>>

\* fs.readFile returns or fails: the node of the file is set and the loop goes on
\* to the next read; after the last one the edges are resolved, the dependents
\* rebuilt and, in initialize, the flag set
ReadCompletes ==
    /\ task # Idle
    /\ LET files == task.files
           j == NextRead(files, task.i + 1)
           g == IF task.op = "initialize"
                THEN createNodes(dependencyGraph, SubSeq(files, task.i, j - 1), 1, disk)
                ELSE updateNodes(dependencyGraph, SubSeq(files, task.i, j - 1), 1, disk)
       IN  IF j <= Len(files)
           THEN /\ dependencyGraph' = g
                /\ task' = [task EXCEPT !.i = j]
                /\ last' = [op |-> "readFile"]
                /\ UNCHANGED isInitialized
           ELSE /\ task' = Idle
                /\ last' = [op |-> task.op]
                /\ IF task.op = "initialize"
                   THEN /\ dependencyGraph' = buildReverseDependencies(analyzeAll(g))
                        /\ isInitialized' = TRUE
                   ELSE /\ dependencyGraph' = buildReverseDependencies(reanalyze(g, files, 1))
                        /\ UNCHANGED isInitialized
    /\ UNCHANGED <<disk, projectAnalysis, edits, contextVars>>

StepsInit ==
    /\ disk \in Projects
    /\ projectAnalysis = NoAnalysis
    /\ dependencyGraph = EmptyMap
    /\ isInitialized = FALSE
    /\ edits = 0
    /\ last = [op |-> "new"]
    /\ task = Idle
    /\ ContextInit

StepsNext ==
    \/ \E order \in orderings[Present] : BeginInitialize(order)
    \/ \E batch \in Batches : BeginUpdateGraph(batch)
    \/ ReadCompletes
    \/ Dispose
    \/ \E p \in Paths : GetDependencies(p)
    \/ FindCircularDependencies
    \/ GetGraphVisualization
    \/ GetDependencyReport
    \/ GetGraphStatus

SpecSteps == StepsInit /\ [][StepsNext]_vars

-----------------------------------------------------------------------------
(* Vocabulary of the properties *)

Keys == DOMAIN dependencyGraph.nodes
DepsOf(k) == Range(dependencyGraph.nodes[k].dependencies)
DependentsOf(k) == Range(dependencyGraph.nodes[k].dependents)
Edges == UNION {{<<a, b>> : b \in DepsOf(a)} : a \in Keys}

Accessors == {"getDependencies", "findCircularDependencies", "getGraphVisualization",
              "getDependencyReport", "getGraphStatus"}

\* the last call was an accessor and it returned a value
Returned(op) == last.op = op /\ ~Threw(last.result)

TypeOK ==
    /\ isInitialized \in BOOLEAN
    /\ edits \in 0..MaxEdits
    /\ Keys = Range(dependencyGraph.order)

-----------------------------------------------------------------------------
(* C1: after a full build every dependency B of a node A is a node and lists A
   among its dependents, and every dependent A of a node B lists B among its
   dependencies. *)
C1_BidirectionalAfterBuild ==
    last.op = "initialize" =>
        \A a \in Keys :
            /\ \A b \in DepsOf(a) : b \in Keys /\ a \in DependentsOf(b)
            /\ \A b \in DependentsOf(a) : b \in Keys /\ a \in DepsOf(b)

\* a full build that produced a node with two dependencies
C1_Witness ==
    /\ last.op = "initialize"
    /\ \E a \in Keys : Cardinality(DepsOf(a)) = 2

(* C2: after an incremental update of a built graph, for all nodes A and B,
   B is a dependency of A exactly when A is a dependent of B. *)
C2_BidirectionalAfterUpdate ==
    (last.op = "updateGraph" /\ isInitialized) =>
        \A a, b \in Keys : b \in DepsOf(a) <=> a \in DependentsOf(b)

\* an update that changed the graph of a project whose files changed on disk
C2_Witness ==
    /\ last.op = "updateGraph"
    /\ isInitialized
    /\ last.changed
    /\ edits > 0
    /\ Edges # {}

(* C3: when a file that other nodes depend on has been deleted and is passed to
   updateGraph, it is no longer a node afterwards and no node lists it among its
   dependencies or dependents.  (The code keeps the node: _shouldIncludeFile looks
   at the path only, and _createDependencyNode survives the failed read.) *)
C3_DeletedFileRemoved ==
    [][\A batch \in Batches : \A f \in Range(batch) :
          ( /\ UpdateGraph(batch)
            /\ isInitialized
            /\ ~disk[f].exists
            /\ f \in Keys
            /\ DependentsOf(f) # {} )
          => /\ f \notin Keys'
             /\ \A k \in Keys' :
                   /\ f \notin Range(dependencyGraph'.nodes[k].dependencies)
                   /\ f \notin Range(dependencyGraph'.nodes[k].dependents)]_vars

\* the graph is the mutual dependency of two files and nothing else
IsPair(x, y) ==
    /\ x # y
    /\ Keys = {x, y}
    /\ Edges = {<<x, y>>, <<y, x>>}

(* C4: on the graph of two files that depend on each other,
   findCircularDependencies returns exactly one report, its cycle is [x,y,x] or
   [y,x,y], and its severity is "high".  (The code grades it "medium": the cycle
   array carries the closing repeat, so its length is 3.) *)
C4_PairCycleIsHigh ==
    \A x, y \in Paths :
        (Returned("findCircularDependencies") /\ IsPair(x, y)) =>
            /\ Len(last.result.value) = 1
            /\ last.result.value[1].cycle \in {<<x, y, x>>, <<y, x, y>>}
            /\ last.result.value[1].severity = "high"

\* the graph is the ring x -> y -> z -> x and nothing else
IsRing(x, y, z) ==
    /\ Cardinality({x, y, z}) = 3
    /\ Keys = {x, y, z}
    /\ Edges = {<<x, y>>, <<y, z>>, <<z, x>>}

(* C5: on the ring A -> B -> C -> A, whatever the insertion order of the three
   nodes, findCircularDependencies returns exactly one report, whose cycle is a
   rotation of [A,B,C,A] and whose severity is "medium". *)
C5_RingCycleIsMedium ==
    \A x, y, z \in Paths :
        (Returned("findCircularDependencies") /\ IsRing(x, y, z)) =>
            /\ Len(last.result.value) = 1
            /\ last.result.value[1].cycle \in
                   {<<x, y, z, x>>, <<y, z, x, y>>, <<z, x, y, z>>}
            /\ last.result.value[1].severity = "medium"

\* the cycle of a ring whose first inserted node is not its alphabetical first
C5_Witness ==
    /\ Returned("findCircularDependencies")
    /\ IsRing("a.ts", "b.ts", "c.ts")
    /\ dependencyGraph.order[1] = "c.ts"
    /\ Len(last.result.value) = 1

\* a sequence of keys is a closed walk of the graph
ClosedWalk(cycle) ==
    /\ Len(cycle) >= 2
    /\ cycle[1] = cycle[Len(cycle)]
    /\ \A i \in 1..(Len(cycle) - 1) : <<cycle[i], cycle[i + 1]>> \in Edges

(* C6: every report of findCircularDependencies is a closed walk of the graph:
   at least two keys, the first equal to the last, every consecutive pair an
   edge.  (The code leaves the recursion stack populated after the first cycle,
   so a later start node with an edge into it is reported as [start, target].) *)
C6_ReportsAreClosedWalks ==
    Returned("findCircularDependencies") =>
        \A i \in DOMAIN last.result.value : ClosedWalk(last.result.value[i].cycle)

\* what getGraphStatus answers for a graph that is not built
StatusNotBuilt ==
    [value |-> [isInitialized |-> FALSE, totalNodes |-> 0, totalEdges |-> 0,
                circularDependencies |-> 0]]

(* C7 as stated: while the graph is not built, every read accessor, getGraphStatus
   included, fails with the not-initialized error. *)
C7_EveryAccessorThrows ==
    (~isInitialized /\ last.op \in Accessors) => last.result = NotInitialized

(* C7, amended: while the graph is not built, getDependencies,
   findCircularDependencies, getGraphVisualization and getDependencyReport fail
   with the not-initialized error; getGraphStatus does not throw and answers
   isInitialized = false with all counts 0. *)
C7_NotInitialized ==
    (~isInitialized /\ last.op \in Accessors) =>
        IF last.op = "getGraphStatus"
        THEN last.result = StatusNotBuilt
        ELSE last.result = NotInitialized

\* getDependencies called on a disposed manager
C7_Witness ==
    /\ ~isInitialized
    /\ projectAnalysis.present
    /\ last.op = "getDependencies"
    /\ Threw(last.result)

\* files a.ts, b.ts and c.ts are on disk as the scenario has them
ScenarioOnDisk == \A p \in {"a.ts", "b.ts", "c.ts"} : disk[p] = Scenario[p]

\* position of a key in the insertion order
Position(k) == IndexOf(dependencyGraph.order, k)

(* C8: a full build of a.ts (imports ./b), b.ts (no imports), c.ts (imports ./a
   and ./b) yields exactly the nodes a.ts, b.ts, c.ts and the edges a->b, c->a,
   c->b; getDependencies('b.ts').dependents holds a.ts and c.ts, each once (as
   the list [a.ts, c.ts] when a.ts was inserted before c.ts); and
   findCircularDependencies returns no cycle. *)
C8_ScenarioBuild ==
    (last.op = "initialize" /\ ScenarioOnDisk) =>
        /\ Keys = {"a.ts", "b.ts", "c.ts"}
        /\ Edges = {<<"a.ts", "b.ts">>, <<"c.ts", "a.ts">>, <<"c.ts", "b.ts">>}
        /\ LET r == getDependencies(dependencyGraph, isInitialized, "b.ts")
           IN  /\ "value" \in DOMAIN r
               /\ Range(r.value.dependents) = {"a.ts", "c.ts"}
               /\ Len(r.value.dependents) = 2
               /\ Position("a.ts") < Position("c.ts")
                     => r.value.dependents = <<"a.ts", "c.ts">>
        /\ findCircularDependencies(dependencyGraph, isInitialized) = [value |-> <<>>]

\* the scenario built with c.ts listed first and a build output beside it
C8_Witness ==
    /\ last.op = "initialize"
    /\ ScenarioOnDisk
    /\ disk["dist/d.ts"].exists
    /\ Len(projectAnalysis.files) = 4
    /\ dependencyGraph.order[1] = "c.ts"

\* the graph is the chain z -> x -> y with the extra edge z -> y
IsChain(x, y, z) ==
    /\ Keys = {x, y, z}
    /\ Edges = {<<x, y>>, <<z, x>>, <<z, y>>}

(* C9 as stated: in the chain c -> a -> b with the extra edge c -> b the depth of
   c.ts is 2 and the maxDepth metric is 2. *)
C9_DepthIsTwo ==
    (Returned("getGraphVisualization") /\ IsChain("a.ts", "b.ts", "c.ts")) =>
        /\ calculateNodeDepth(dependencyGraph, "c.ts", {}) = 2
        /\ last.result.value.metrics.maxDepth = 2

(* C9, amended: in the chain c -> a -> b with the extra edge c -> b the depth of
   c.ts is 3 and the maxDepth metric is 3: the depth counts the nodes of the
   longest chain, a node without dependencies having depth 1. *)
C9_DepthIsThree ==
    (Returned("getGraphVisualization") /\ IsChain("a.ts", "b.ts", "c.ts")) =>
        /\ calculateNodeDepth(dependencyGraph, "c.ts", {}) = 3
        /\ calculateNodeDepth(dependencyGraph, "a.ts", {}) = 2
        /\ calculateNodeDepth(dependencyGraph, "b.ts", {}) = 1
        /\ last.result.value.metrics.maxDepth = 3

\* the metrics of the chain have been computed
C9_Witness ==
    /\ Returned("getGraphVisualization")
    /\ IsChain("a.ts", "b.ts", "c.ts")
    /\ last.result.value.metrics.totalEdges = 3

\* a specifier the resolver treats as in-project: relative or alias-rooted
IsLocalSpecifier(src) ==
    StartsWith(src, "./") \/ StartsWith(src, "../") \/ StartsWith(src, "@/")

ImportShapes == {"named", "default", "namespace", "sideEffect"}

(* C10: an import of a bare package name never produces an edge: every
   dependency of a node is a path probed for one of the node's relative or
   alias-rooted imports; and after a full build every bare import line of a file
   is a record of its node's imports list. *)
C10_BareImportsMakeNoEdge ==
    /\ \A k \in Keys : \A d \in DepsOf(k) :
          \E i \in DOMAIN dependencyGraph.nodes[k].imports :
             LET src == dependencyGraph.nodes[k].imports[i].source
             IN  IsLocalSpecifier(src) /\ d \in Range(importCandidates(src, k))
    /\ last.op = "initialize" =>
          \A k \in Keys : \A n \in DOMAIN disk[k].lines :
             LET line == disk[k].lines[n]
             IN  (line.shape \in ImportShapes /\ ~IsLocalSpecifier(line.source)) =>
                    \E i \in DOMAIN dependencyGraph.nodes[k].imports :
                       /\ dependencyGraph.nodes[k].imports[i].source = line.source
                       /\ dependencyGraph.nodes[k].imports[i].lineNumber = n

\* a built node imports the bare name "b" while b.ts is a node, and has no edge
C10_Witness ==
    /\ last.op = "initialize"
    /\ "b.ts" \in Keys
    /\ \E k \in Keys :
          /\ \E i \in DOMAIN dependencyGraph.nodes[k].imports :
                dependencyGraph.nodes[k].imports[i].source = "b"
          /\ DepsOf(k) = {}

\* the edges of a node map
EdgesOf(g) ==
    UNION {{<<a, b>> : b \in Range(g.nodes[a].dependencies)} : a \in DOMAIN g.nodes}

\* the paths the analysis lists
Listed == {projectAnalysis.files[i].relativePath : i \in DOMAIN projectAnalysis.files}

(* C11: with the files unchanged, a second full build of the same analysis, its
   files listed in any order, yields the same set of node keys and the same set
   of edges as the build just made. *)
C11_BuildIsOrderIndependent ==
    last.op = "initialize" =>
        \A order \in Orderings(Listed) :
            LET again == buildDependencyGraph(
                             [i \in DOMAIN order |-> projectFiles[order[i]]], disk)
            IN  /\ DOMAIN again.nodes = Keys
                /\ EdgesOf(again) = Edges

\* a build of three files with edges, the last file of the alphabet listed first
C11_Witness ==
    /\ last.op = "initialize"
    /\ Len(projectAnalysis.files) = 3
    /\ projectAnalysis.files[1].relativePath = "c.ts"
    /\ Cardinality(Edges) >= 2

(* C12: at most one analysis pass is in flight at any time: a change
   notification that arrives while a pass runs starts no second pass beside it.
   (The code only tests _analysisInProgress when the event arrives: the timer
   callback starts its pass unconditionally and never sets the flag, so two
   events within the delay, or an event during an incremental pass, give two
   passes in flight.) *)
C12_OneAnalysisAtATime == Len(running) <= 1

(* C13: a call of getDependencies, findCircularDependencies,
   getGraphVisualization, getDependencyReport or getGraphStatus leaves the node
   map (its keys and every field of every node) and the initialized flag as they
   were. *)
C13_AccessorsChangeNothing ==
    [][last'.op \in Accessors =>
          /\ dependencyGraph'.nodes = dependencyGraph.nodes
          /\ isInitialized' = isInitialized]_vars

\* a report over a graph in which a node has two dependents
C13_Witness ==
    /\ Returned("getDependencyReport")
    /\ last.result.value.mostDependentFiles[1].count = 2
    /\ \E k \in Keys : Len(dependencyGraph.nodes[k].dependents) = 2

(* C14: no node of the graph has the type config or asset.  (The code decides
   membership by _shouldIncludeFile, which looks at the exclude patterns and the
   extension only, and labels the node by _determineFileType afterwards:
   app.config.ts becomes a node of type config.) *)
C14_NoConfigOrAssetNode ==
    \A k \in Keys : dependencyGraph.nodes[k].type \notin {"config", "asset"}

\* what the resolver answers for the i-th import record of node k
Resolved(k, i) ==
    resolveImportPath(dependencyGraph, dependencyGraph.nodes[k].imports[i].source, k)

(* C15: in every graph a full build or an updateGraph leaves, no node lists a
   key twice among its dependencies and no node lists a key twice among its
   dependents, however many of a file's import records resolve to one target. *)
C15_NoDuplicateEdges ==
    \A k \in Keys :
        /\ NoRepeat(dependencyGraph.nodes[k].dependencies)
        /\ NoRepeat(dependencyGraph.nodes[k].dependents)

\* an update has changed the graph, and two import records of a node resolve to
\* the same dependency
C15_Witness ==
    /\ last.op = "updateGraph"
    /\ last.changed
    /\ \E k \in Keys : \E i, j \in DOMAIN dependencyGraph.nodes[k].imports :
          /\ i < j
          /\ Resolved(k, i) = Resolved(k, j)
          /\ Resolved(k, i) \in DepsOf(k)

\* in the node map g, file f is a node that carries what the file on disk holds
\* and the edges its imports resolve to
SettledIn(g, f) ==
    /\ MapHas(g, f)
    /\ g.nodes[f].imports = parseImports(disk[f].lines, PathExtname(f))
    /\ g.nodes[f].exports = parseExports(disk[f].lines, PathExtname(f))
    /\ Range(g.nodes[f].dependencies) =
           {resolveImportPath(g, g.nodes[f].imports[i].source, f) :
                i \in DOMAIN g.nodes[f].imports} \ {Null}

\* some file of the sequence cannot be read
SomeUnreadable(q) == \E i \in DOMAIN q : ~disk[q[i]].exists

FilesOf(q) == [i \in DOMAIN q |-> projectFiles[q[i]]]

(* C16: when a file of an updateGraph batch, or of the analysis of a full build,
   cannot be read, the operation still runs to its end: in the graph it leaves,
   every readable file of the batch (of the analysis) that _shouldIncludeFile
   accepts is a node, carries the imports and exports of its content on disk,
   and has its imports resolved to edges.  Stated of every reachable state and every batch (analysis) the
   operation can be called with there. *)
C16_UnreadableFileIsSkipped ==
    /\ isInitialized =>
          \A batch \in LayoutBatches :
              SomeUnreadable(batch) =>
                  LET g == updatedGraph(dependencyGraph, FilesOf(batch), disk)
                  IN  \A i \in DOMAIN batch :
                          (disk[batch[i]].exists /\ included[batch[i]])
                              => SettledIn(g, batch[i])
    /\ \A S \in Listings : \A order \in LayoutOrders(S) :
          SomeUnreadable(order) =>
              LET g == buildDependencyGraph(FilesOf(order), disk)
              IN  \A i \in DOMAIN order :
                      (disk[order[i]].exists /\ included[order[i]])
                          => SettledIn(g, order[i])

\* an update whose batch held a file that cannot be read has changed the graph:
\* a.ts, rewritten on disk, carries its new imports
C16_Witness ==
    /\ last.op = "updateGraph"
    /\ last.unreadable
    /\ last.changed
    /\ disk["a.ts"].lines \in LayoutContents
    /\ SettledIn(dependencyGraph, "a.ts")

\* the keys reachable from the set S along dependency edges, S included
RECURSIVE Closure(_)
Closure(S) ==
    LET T == S \cup UNION {DepsOf(k) : k \in S \cap Keys}
    IN  IF T = S THEN S ELSE Closure(T)

\* k lies on a directed cycle
OnCycle(k) == k \in Closure(DepsOf(k))

HasCycle == \E k \in Keys : OnCycle(k)

(* C17: in every reachable graph, findCircularDependencies returns the empty
   list exactly when the dependency edges contain no directed cycle. *)
C17_EmptyIffAcyclic ==
    Returned("findCircularDependencies") =>
        (last.result.value = <<>> <=> ~HasCycle)

\* cycles are reported for a graph changed on disk whose first key lies on no
\* cycle
C17_Witness ==
    /\ Returned("findCircularDependencies")
    /\ edits > 0
    /\ HasCycle
    /\ ~OnCycle(dependencyGraph.order[1])
    /\ last.result.value # <<>>

\* the files of S form a directed cycle through each of them once
SimpleCycle(S) ==
    \E q \in Orderings(S) :
        \A i \in DOMAIN q : <<q[i], q[(i % Len(q)) + 1]>> \in Edges

\* the cycles of up to three files
SmallCycles == {S \in SUBSET Keys : Cardinality(S) \in 1..3 /\ SimpleCycle(S)}

\* some report consists of exactly the files of S
ReportedAs(S) ==
    \E i \in DOMAIN last.result.value : Range(last.result.value[i].cycle) = S

(* C18: findCircularDependencies reports at most one cycle per start node, and
   of any two cycles that share no file both are found: for each, some report
   consists of exactly its files.  (The code returns from the whole search of a
   start node at the first back edge, leaving every node on the path visited: a
   cycle through those nodes is never searched again.) *)
C18_DisjointCyclesAreFound ==
    Returned("findCircularDependencies") =>
        /\ Len(last.result.value) <= Cardinality(Keys)
        /\ \A S, T \in SmallCycles :
              S \cap T = {} => ReportedAs(S) /\ ReportedAs(T)

\* the walks from k along dependency edges that pass no key twice
SimplePathsFrom(k) ==
    {q \in SeqsUpTo(Keys, Cardinality(Keys)) :
        /\ Len(q) >= 1
        /\ q[1] = k
        /\ NoRepeat(q)
        /\ \A i \in 1..(Len(q) - 1) : <<q[i], q[i + 1]>> \in Edges}

(* C19: after a full build, on cyclic graphs too, the depth computation and
   findCircularDependencies end with a value; the depth of every node is at
   least 1 and at most the number of nodes; and a node met again within its own
   computation adds nothing: the depth of a node is the number of nodes of the
   longest walk from it that passes no node twice. *)
C19_DepthIsBounded ==
    last.op = "initialize" =>
        /\ Len(circularDependencies(dependencyGraph)) <= Cardinality(Keys)
        /\ \A k \in Keys :
              LET d == calculateNodeDepth(dependencyGraph, k, {})
              IN  /\ 1 <= d
                  /\ d <= Cardinality(Keys)
                  /\ \E q \in SimplePathsFrom(k) : Len(q) = d
                  /\ \A q \in SimplePathsFrom(k) : Len(q) <= d

\* a full build of a cyclic graph in which a node has the depth 3 of 3 nodes
C19_Witness ==
    /\ last.op = "initialize"
    /\ HasCycle
    /\ Cardinality(Keys) = 3
    /\ \E k \in Keys : calculateNodeDepth(dependencyGraph, k, {}) = 3

\* relative specifiers and the files they are imported from
RelativeSpecifiers == {"./lib", "../lib", "./lib/index", "../a", "./b", "./app.config"}

ImportingFiles == {"a.ts", "lib.ts", "lib/index.ts"}

\* the n-th path the claim has the resolver try for src imported from file from:
\* the target with the n-th extension, then index.<ext> inside the target
Probe(src, from, n) ==
    LET exts == <<".ts", ".js", ".tsx", ".jsx", ".py", ".java">>
        target == PathNormalize(PathJoin(PathDirname(from), src))
    IN  IF n <= 6 THEN target \o exts[n]
        ELSE PathJoin(target, "index" \o exts[n - 6])

\* the twelve probes of every specifier and importing file, computed once
probes ==
    [x \in RelativeSpecifiers \X ImportingFiles |->
        [n \in 1..12 |-> Probe(x[1], x[2], n)] @@ <<>>] @@ <<>>

(* C20: for a relative specifier the resolver answers the first node key among:
   the target path followed by .ts, .js, .tsx, .jsx, .py, .java in this order,
   then index.ts, index.js, index.tsx, index.jsx, index.py, index.java inside
   the target directory; so a direct file wins over an index file; and it
   answers null when none of the twelve is a node key. *)
C20_FirstCandidateWins ==
    \A src \in RelativeSpecifiers : \A from \in ImportingFiles :
        LET probe == probes[<<src, from>>]
            hits == {n \in 1..12 : probe[n] \in Keys}
            r == resolveImportPath(dependencyGraph, src, from)
        IN  IF hits = {} THEN r = Null
            ELSE r = probe[CHOOSE n \in hits : \A m \in hits : n <= m]

\* lib.js and lib/index.ts are nodes, lib.ts is not, and a.ts depends on lib.js
C20_Witness ==
    /\ {"lib.js", "lib/index.ts"} \subseteq Keys
    /\ "lib.ts" \notin Keys
    /\ DepsOf("a.ts") = {"lib.js", "app.config.ts"}

(* C21: updateGraph re-resolves the forward edges of the files of its batch
   only: in the graph it leaves, every node whose file is not in the batch has
   the dependencies list it had before, and the dependents of every node are
   exactly the nodes that list it among their dependencies, each once.  Stated
   of every reachable built graph and every batch. *)
C21_UpdateResolvesBatchOnly ==
    isInitialized =>
        \A batch \in Batches :
            LET g == updatedGraph(dependencyGraph, FilesOf(batch), disk)
            IN  /\ \A k \in Keys \ Range(batch) :
                      /\ MapHas(g, k)
                      /\ g.nodes[k].dependencies = dependencyGraph.nodes[k].dependencies
                /\ \A k \in DOMAIN g.nodes :
                      /\ NoRepeat(g.nodes[k].dependents)
                      /\ Range(g.nodes[k].dependents) =
                             {a \in DOMAIN g.nodes : k \in Range(g.nodes[a].dependencies)}

\* an update has added a node that a file outside its batch imports: the import
\* resolves now, and the importing node still has the edges it had
C21_Witness ==
    /\ last.op = "updateGraph"
    /\ last.changed
    /\ isInitialized
    /\ \E k \in Keys : \E i \in DOMAIN dependencyGraph.nodes[k].imports :
          /\ Resolved(k, i) # Null
          /\ Resolved(k, i) \notin DepsOf(k)

(* C22: a file event that arrives while a delayed analysis is pending cancels
   it and schedules it anew, so at most one delayed analysis is pending at any
   time and a burst of events gives one run.  (The code keeps no handle of the
   timer: every event that is not ignored adds a setTimeout of its own, and each
   of them runs its analysis.) *)
C22_BurstSchedulesOneRun == timers <= 1

\* onContextUpdated has just been fired with an analysis begun after n others
PublishedAfter(n) == last.op = "onContextUpdated" /\ last.analysis > n

(* C23: a change notification is never lost: after every file event that is not
   ignored, an analysis that starts after the event is eventually published.
   (The code drops the event that arrives while initializeProjectContext is at
   work: _incrementalUpdate returns without scheduling anything, and the pass in
   progress, begun before the event, is the last one.) *)
C23_ChangeIsNotLost ==
    \A n \in 0..MaxEvents :
        (last = [op |-> "fileEvent", ignored |-> FALSE] /\ started = n) ~> PublishedAfter(n)

\* computed once: an excluded substring occurs in the path
hasExcluded ==
    [p \in AllPaths \cup Directories |->
        \E i \in DOMAIN excludePatterns : StrIncludes(p, excludePatterns[i])] @@ <<>>

(* C24: no node key contains '.git', 'node_modules', '.vscode', 'dist', 'build',
   'coverage' or '.nyc_output' anywhere in it; and the discoverer, run on the
   files on disk, reads no directory and returns no file whose path relative to
   the root contains one of them. *)
C24_ExcludedNeverAppear ==
    /\ \A k \in Keys : ~hasExcluded[k]
    /\ LET found == discoverProjectFiles(disk)
       IN  /\ \A f \in found.files : ~hasExcluded[f]
           /\ \A d \in found.scanned \ {"."} : ~hasExcluded[d]

\* a build whose analysis listed rebuild.ts and .nyc_output/run.js, both on
\* disk, followed by an update: neither is a node, and the discoverer returns
\* the other files
C24_Witness ==
    /\ last.op = "updateGraph"
    /\ isInitialized
    /\ OutputFiles \subseteq Listed
    /\ OutputFiles \subseteq Present
    /\ "a.ts" \in Keys
    /\ Keys \cap OutputFiles = {}
    /\ discoverProjectFiles(disk).files = Present \ OutputFiles

\* the marks of a test file and of a configuration file
markedTest ==
    [p \in AllPaths |->
        \E m \in {"test", "spec", "__tests__", ".test.", ".spec."} :
            StrIncludes(ToLowerCase(p), m)] @@ <<>>

markedConfig ==
    [p \in AllPaths |->
        \/ \E m \in {"config", ".config."} : StrIncludes(ToLowerCase(p), m)
        \/ StartsWith(PathBasename(p), ".")
        \/ \E m \in {"webpack", "babel", "eslint", "prettier", "tsconfig"} :
              StrIncludes(PathBasename(p), m)] @@ <<>>

\* the first of Test, Config, Source, Asset that fits the path
FirstMatch(p) ==
    IF markedTest[p] THEN "test"
    ELSE IF markedConfig[p] THEN "config"
    ELSE IF PathExtname(p) \in {".ts", ".js", ".tsx", ".jsx", ".py", ".java", ".cs", ".go", ".rs"}
    THEN "source"
    ELSE "asset"

(* C25: the type of a file is the first of Test, Config, Source, Asset that fits
   it: a path with a test mark is test even when it also has a configuration
   mark, and a path with a configuration mark is config even when its extension
   is a source extension.  Stated of the type of every node and of the
   classification of every file of the model. *)
C25_FirstMatchWins ==
    /\ \A k \in Keys : dependencyGraph.nodes[k].type = FirstMatch(k)
    /\ \A p \in AllPaths : fileTypes[p] = FirstMatch(p)
    /\ \A p \in AllPaths :
          /\ markedTest[p] => fileTypes[p] = "test"
          /\ (markedConfig[p] /\ ~markedTest[p]) => fileTypes[p] = "config"

\* a build has made a test node of a file with a configuration mark, and a
\* config node of a .ts file
C25_Witness ==
    /\ last.op = "initialize"
    /\ {"a.config.test.ts", "app.config.ts"} \subseteq Keys
    /\ markedConfig["a.config.test.ts"]
    /\ dependencyGraph.nodes["a.config.test.ts"].type = "test"
    /\ dependencyGraph.nodes["app.config.ts"].type = "config"

(* C26: a disposed manager is as a new one: its node map is empty, the four
   throwing accessors fail with the not-initialized error and updateGraph
   changes nothing; updateGraph before the first initialize changes nothing
   either; and every initialize, one that follows a dispose included, leaves
   the flag set and a complete graph: a node for every listed file that
   _shouldIncludeFile accepts, each with the imports of its file and the edges
   they resolve to. *)
C26_Lifecycle ==
    /\ last.op = "dispose" => ~isInitialized
    /\ ~isInitialized =>
          /\ dependencyGraph = EmptyMap
          /\ last.op \in Accessors \ {"getGraphStatus"} => last.result = NotInitialized
          /\ last.op = "updateGraph" => ~last.changed
    /\ last.op = "initialize" =>
          /\ isInitialized
          /\ Keys = {k \in Listed : included[k]}
          /\ \A k \in Keys : SettledIn(dependencyGraph, k)

\* updateGraph has been called on a disposed manager, with files that changed
\* on disk since the build
C26_Witness ==
    /\ last.op = "updateGraph"
    /\ ~isInitialized
    /\ projectAnalysis.present
    /\ edits > 0

\* the node of k carries the imports of the file on disk
UpToDate(k) ==
    /\ disk[k].exists
    /\ dependencyGraph.nodes[k].imports = parseImports(disk[k].lines, PathExtname(k))

\* the files of the project once the changes of the batch are taken in: those
\* of the graph and those of the batch, less the files of the batch that are gone
ResultingFiles(batch) ==
    {p \in Keys \cup Range(batch) : p \in Range(batch) => disk[p].exists}

\* a full build over a set of files
RebuildOver(S) == buildDependencyGraph(FilesOf(SelectSeq(Scan, LAMBDA p : p \in S)), disk)

(* C27: on a built graph, updateGraph with a batch that holds every file changed
   since leaves the node keys and the edges a full build over the resulting
   files would produce.  (The code re-resolves the imports of the files of the
   batch only, so a file outside the batch that imports a file the batch adds
   gets no edge to it; and it keeps a node for a file of the batch that is gone,
   as in C3.) *)
C27_UpdateAgreesWithRebuild ==
    isInitialized =>
        \A batch \in LayoutBatches :
            (\A k \in Keys \ Range(batch) : UpToDate(k)) =>
                LET g == updatedGraph(dependencyGraph, FilesOf(batch), disk)
                    full == RebuildOver(ResultingFiles(batch))
                IN  /\ DOMAIN g.nodes = DOMAIN full.nodes
                    /\ EdgesOf(g) = EdgesOf(full)

\* the node map is what a completed build or update leaves: every listed file
\* that is admitted has a node, every node has its imports resolved to edges,
\* and dependents mirror dependencies
Complete ==
    /\ {k \in Listed : included[k]} \subseteq Keys
    /\ \A k \in Keys : SettledIn(dependencyGraph, k)
    /\ \A a, b \in Keys : b \in DepsOf(a) <=> a \in DependentsOf(b)

(* C28: an accessor that runs while the flag is set sees the node map of a
   completed build or update, never a cleared or partly filled map, nodes whose
   imports are not resolved, or edges without their dependents.  (The code
   leaves the flag set while a second initialize or an updateGraph is reading
   files: the accessors, which test nothing but the flag, answer from the map as
   it stands between two reads.) *)
C28_AccessorsSeeCompleteGraph ==
    (isInitialized /\ last.op \in Accessors) => Complete

(* C29: _currentAnalysis is only ever replaced by the result of an analysis
   that began later than the one it holds; the in-progress flag is clear
   whenever no call of initializeProjectContext is under way; and a call made
   while the flag is set returns null and starts no analysis.  (Two analyses
   can be in flight at once, see C12 and C22, and each assigns its result when
   it ends: the one that began first may end last and replace the newer
   result.) *)
C29_PublicationsAreOrdered ==
    [][ /\ currentAnalysis' # currentAnalysis => currentAnalysis'.started > currentAnalysis.started
        /\ (\A i \in DOMAIN running' : running'[i].kind # "full") => ~analysisInProgress'
        /\ (last'.op = "initializeProjectContext" /\ events' # events /\ analysisInProgress)
              => (last'.result = NullResult /\ running' = running /\ started' = started) ]_vars

\* the sum of the values of a sequence of numbers
RECURSIVE SumSeq(_)
SumSeq(q) == IF q = <<>> THEN 0 ELSE Head(q) + SumSeq(Tail(q))

(* C30: on every built graph the accessors agree: totalEdges of getGraphStatus,
   totalDependencies of getDependencyReport, the number of edges of
   getGraphVisualization, the sum of its dependencyCount and the sum of its
   dependentCount are one number; totalNodes of the status, totalFiles of the
   report, totalNodes of the metrics, the number of visualization nodes and the
   sum of the per-type counts are one number; and circularDependencies of the
   status is the length of findCircularDependencies. *)
C30_AccessorsAgree ==
    isInitialized =>
        LET status == getGraphStatus(dependencyGraph, isInitialized).value
            report == getDependencyReport(dependencyGraph, isInitialized).value
            view == getGraphVisualization(dependencyGraph, isInitialized).value
            cycles == findCircularDependencies(dependencyGraph, isInitialized).value
        IN  /\ status.totalEdges = report.totalDependencies
            /\ status.totalEdges = Len(view.edges)
            /\ status.totalEdges = view.metrics.totalEdges
            /\ status.totalEdges =
                   SumSeq([i \in DOMAIN view.nodes |-> view.nodes[i].dependencyCount])
            /\ status.totalEdges =
                   SumSeq([i \in DOMAIN view.nodes |-> view.nodes[i].dependentCount])
            /\ status.totalNodes = Len(view.nodes)
            /\ status.totalNodes = view.metrics.totalNodes
            /\ status.totalNodes = report.totalFiles
            /\ status.totalNodes = SumOver(report.fileTypes, DOMAIN report.fileTypes)
            /\ status.circularDependencies = Len(cycles)
            /\ status.circularDependencies = Len(report.circularDependencies)

\* the status of the graph of a project changed on disk, with a cycle reported,
\* two edges or more, and a node with more import records than edges
C30_Witness ==
    /\ Returned("getGraphStatus")
    /\ last.result.value.totalEdges >= 2
    /\ last.result.value.circularDependencies >= 1
    /\ edits > 0
    /\ \E k \in Keys : Len(dependencyGraph.nodes[k].imports) > Len(dependencyGraph.nodes[k].dependencies)
====
